---- MODULE Spec2Model ----
(***************************************************************************)
(* A model of the expression engine of acc_calc_mcp                        *)
(* (src/src/tools/calculator.rs): number normalisation, tokenisation with  *)
(* per-literal rounding, shunting-yard conversion, postfix evaluation and  *)
(* the calculate / validate facade.                                        *)
(*                                                                         *)
(* Text is a sequence of one-character strings.  An f64 is modelled as an  *)
(* exact rational [num, den] in lowest terms: the binary representation    *)
(* error of f64 is not modelled, everything else (rounding half away from  *)
(* zero, the 1e-9 thresholds, the order of the steps) is.                  *)
(***************************************************************************)
EXTENDS Integers, Sequences, FiniteSets, TLC

VARIABLES
    pc,               \* position inside the running entry point
    items,            \* the expression as written: a sequence of lexical items
    decimals,         \* calculate's `decimals`
    rounding_strategy,\* calculate's `rounding_strategy`
    chars,            \* tokenize_and_round: the unread rest of `expr`
    tokens,           \* tokenize_and_round: `tokens`
    queue_in,         \* shunt_to_rpn / evaluate_rpn: the unread rest of the slice
    output_queue,     \* shunt_to_rpn: `output_queue`
    operator_stack,   \* shunt_to_rpn: `operator_stack`
    operand_stack,    \* evaluate_rpn: `operand_stack`
    result,           \* calculate: `result`, the value evaluate_rpn returned
    returned,         \* the Result<f64, CalcError> calculate returns
    expected,         \* validate's `expected`
    verdict,          \* validate's bool
    input,            \* normalize_number's `input`
    normalized,       \* normalize_number's return value
    calls,            \* how many calls of calculate have been made
    rounded,          \* round_value: the values it returned, applied repeatedly
    expressions,      \* batch: params.expressions, the lines
    percent_rounding, \* batch: params.percent_rounding, the policy token
    index,            \* batch: how many lines the loop has been through
    results,          \* batch: Vec<String>, the entries pushed so far
    all_passed,       \* batch: bool
    output            \* batch: the text of the report

vars == <<pc, items, decimals, rounding_strategy, chars, tokens, queue_in,
          output_queue, operator_stack, operand_stack, result, returned,
          expected, verdict, input, normalized, calls, rounded,
          expressions, percent_rounding, index, results, all_passed, output>>

batch_vars == <<expressions, percent_rounding, index, results, all_passed, output>>

\* the batch tool is not running
BatchIdle ==
    /\ expressions = <<>> /\ percent_rounding = <<>> /\ index = 0
    /\ results = <<>> /\ all_passed = TRUE /\ output = <<>>

----------------------------------------------------------------------------
(* Characters and strings *)

Digits == {"0", "1", "2", "3", "4", "5", "6", "7", "8", "9"}

DigitVal(c) ==
    CASE c = "0" -> 0 [] c = "1" -> 1 [] c = "2" -> 2 [] c = "3" -> 3
      [] c = "4" -> 4 [] c = "5" -> 5 [] c = "6" -> 6 [] c = "7" -> 7
      [] c = "8" -> 8 [] c = "9" -> 9

\* char::is_ascii_digit
is_ascii_digit(c) == c \in Digits

\* char::is_whitespace, on the characters of the model
is_whitespace(c) == c \in {" ", "\t", "\n", "\r"}

\* str::contains(char)
contains(s, c) == \E i \in 1..Len(s) : s[i] = c

\* str::matches(char).count()
count(s, c) == Cardinality({i \in 1..Len(s) : s[i] = c})

\* str::rfind(char), 1-based; 0 when absent
rfind(s, c) ==
    IF contains(s, c)
    THEN CHOOSE i \in 1..Len(s) : s[i] = c /\ \A j \in (i+1)..Len(s) : s[j] # c
    ELSE 0

\* str::replace(from, to) for a single character
replace(s, from, to) == [i \in 1..Len(s) |-> IF s[i] = from THEN to ELSE s[i]]

\* str::trim
RECURSIVE trim_start(_)
trim_start(s) ==
    IF s # <<>> /\ is_whitespace(Head(s)) THEN trim_start(Tail(s)) ELSE s

RECURSIVE trim_end(_)
trim_end(s) ==
    IF s # <<>> /\ is_whitespace(s[Len(s)])
    THEN trim_end(SubSeq(s, 1, Len(s) - 1))
    ELSE s

trim(s) == trim_end(trim_start(s))

\* chars().all(|c| c.is_ascii_digit())
all_ascii_digit(s) == \A i \in 1..Len(s) : is_ascii_digit(s[i])

----------------------------------------------------------------------------
(* f64 as an exact rational *)

Abs(n) == IF n < 0 THEN -n ELSE n

RECURSIVE GCD(_, _)
GCD(a, b) == IF b = 0 THEN a ELSE GCD(b, a % b)

Rat(n, d) ==
    LET g == GCD(Abs(n), Abs(d))
        s == IF d < 0 THEN -1 ELSE 1
    IN  [num |-> s * (n \div g), den |-> s * (d \div g)]

Zero == [num |-> 0, den |-> 1]
FromInt(n) == [num |-> n, den |-> 1]

LCM(a, b) == (a \div GCD(a, b)) * b

RAdd(a, b) ==
    LET l == LCM(a.den, b.den)
    IN  Rat(a.num * (l \div a.den) + b.num * (l \div b.den), l)
RSub(a, b) ==
    LET l == LCM(a.den, b.den)
    IN  Rat(a.num * (l \div a.den) - b.num * (l \div b.den), l)
RMul(a, b) == Rat(a.num * b.num, a.den * b.den)
RDiv(a, b) == Rat(a.num * b.den, a.den * b.num)
RNeg(a) == [num |-> -a.num, den |-> a.den]
RAbs(a) == [num |-> Abs(a.num), den |-> a.den]

\* 1e-9: EPSILON of validate, and the literal of evaluate_rpn's Divide arm
EPSILON == [num |-> 1, den |-> 1000000000]

\* a < b for a >= 0 and b = 1/k, without leaving 32 bits: a.num * k < a.den
RLtEps(a, eps) ==
    \/ a.num = 0
    \/ /\ a.num <= a.den \div eps.den
       /\ a.num * eps.den < a.den

\* variant: to the nearest integer, halves to the even neighbour
f64_round_half_even(n, d) ==
    LET lo == IF n >= 0 THEN n \div d ELSE -(((-n) + d - 1) \div d)
        twice == 2 * (n - lo * d)
    IN  IF twice < d THEN lo
        ELSE IF twice > d THEN lo + 1
        ELSE IF lo % 2 = 0 THEN lo ELSE lo + 1

\* f64::round on n/d: to the nearest integer, halves away from zero
f64_round(n, d) ==
    IF n >= 0 THEN (2 * n + d) \div (2 * d)
    ELSE -((2 * (-n) + d) \div (2 * d))

\* fn round_value(value: f64, decimals: u32) -> f64
round_value(value, dec) ==
    LET factor == 10 ^ dec
    IN  Rat(f64_round(value.num * factor, value.den), factor)

\* str::parse::<f64> on text made of digits and '.': Ok iff there is at least
\* one digit and at most one '.'; anything else in the text is an Err.
parse_ok(s) ==
    /\ \A i \in 1..Len(s) : is_ascii_digit(s[i]) \/ s[i] = "."
    /\ \E i \in 1..Len(s) : is_ascii_digit(s[i])
    /\ count(s, ".") <= 1

RECURSIVE digits_value(_)
digits_value(s) ==
    IF s = <<>> THEN 0
    ELSE 10 * digits_value(SubSeq(s, 1, Len(s) - 1)) + DigitVal(s[Len(s)])

parse_f64(s) ==
    LET dot == rfind(s, ".")
        int_part == IF dot = 0 THEN s ELSE SubSeq(s, 1, dot - 1)
        frac_part == IF dot = 0 THEN <<>> ELSE SubSeq(s, dot + 1, Len(s))
    IN  Rat(digits_value(int_part \o frac_part), 10 ^ Len(frac_part))

----------------------------------------------------------------------------
(* Number normaliser *)

\* fn remove_thousand_separators(input: &str, separators: &[char]) -> String
remove_thousand_separators(s, separators) ==
    SelectSeq(s, LAMBDA c : c \notin separators)

\* the text after the last occurrence of c (split(c).last())
last_part(s, c) == SubSeq(s, rfind(s, c) + 1, Len(s))

\* the branch of normalize_number taken when both ',' and '.' occur
normalize_both(cleaned) ==
    IF rfind(cleaned, ".") > rfind(cleaned, ",")
    THEN remove_thousand_separators(cleaned, {",", "'", " "})
    ELSE replace(remove_thousand_separators(cleaned, {".", "'", " "}), ",", ".")

\* variant: a comma counts as decimal only before at most two digits
normalize_comma_two_digits(cleaned) ==
    IF count(cleaned, ",") = 1
    THEN IF /\ Len(last_part(cleaned, ",")) <= 2
            /\ all_ascii_digit(last_part(cleaned, ","))
         THEN replace(cleaned, ",", ".")
         ELSE remove_thousand_separators(cleaned, {",", "'", " "})
    ELSE remove_thousand_separators(cleaned, {",", "'", " "})

\* the branch taken when only ',' occurs
normalize_comma(cleaned) ==
    IF count(cleaned, ",") = 1
    THEN IF /\ Len(last_part(cleaned, ",")) <= 3
            /\ all_ascii_digit(last_part(cleaned, ","))
         THEN replace(cleaned, ",", ".")
         ELSE remove_thousand_separators(cleaned, {",", "'", " "})
    ELSE remove_thousand_separators(cleaned, {",", "'", " "})

\* the branch taken when only '.' occurs
normalize_dot(cleaned) ==
    IF count(cleaned, ".") = 1
    THEN cleaned
    ELSE IF /\ Len(last_part(cleaned, ".")) <= 3
            /\ all_ascii_digit(last_part(cleaned, "."))
         THEN remove_thousand_separators(
                  SubSeq(cleaned, 1, rfind(cleaned, ".") - 1), {".", "'", " "})
              \o <<".">> \o last_part(cleaned, ".")
         ELSE remove_thousand_separators(cleaned, {".", "'", " "})

\* pub fn normalize_number(input: &str) -> String
normalize_number(inp) ==
    IF inp = <<>> THEN inp
    ELSE LET cleaned == trim(inp)
         IN  IF contains(cleaned, ",") /\ contains(cleaned, ".")
             THEN normalize_both(cleaned)
             ELSE IF contains(cleaned, ",") THEN normalize_comma(cleaned)
             ELSE IF contains(cleaned, ".") THEN normalize_dot(cleaned)
             ELSE remove_thousand_separators(cleaned, {"'", " "})

----------------------------------------------------------------------------
(* Tokens, errors and results *)

\* enum Token
Number(v) == [type |-> "Number", value |-> v]
Op(t) == [type |-> t, value |-> Zero]
Operators == {"Add", "Subtract", "Multiply", "Divide"}

\* Result<f64, CalcError>; Pending before the call has returned
Ok(v) == [state |-> "Ok", value |-> v, err |-> "", ch |-> ""]
Err(e, c) == [state |-> "Err", value |-> Zero, err |-> e, ch |-> c]
Pending == [state |-> "Pending", value |-> Zero, err |-> "", ch |-> ""]

\* enum PercentRounding
PercentRounding == {"DivideBy100ThenRound", "RoundThenDivideBy100"}

Front(s) == SubSeq(s, 1, Len(s) - 1)
Last(s) == s[Len(s)]

\* fn precedence(token: &Token) -> u8
precedence(token) ==
    CASE token.type \in {"Add", "Subtract"} -> 1
      [] token.type \in {"Multiply", "Divide"} -> 2
      [] OTHER -> 0

----------------------------------------------------------------------------
(* Tokenizer *)

\* variant: a space ends the literal
RECURSIVE consumed_len_space_ends(_, _)
consumed_len_space_ends(cs, has_digit) ==
    IF cs = <<>> THEN 0
    ELSE IF is_ascii_digit(Head(cs)) THEN 1 + consumed_len_space_ends(Tail(cs), TRUE)
    ELSE IF Head(cs) \in {".", ",", "'"} /\ has_digit
         THEN 1 + consumed_len_space_ends(Tail(cs), has_digit)
    ELSE 0

\* the number of characters consume_number takes from the stream
RECURSIVE consumed_len(_, _)
consumed_len(cs, has_digit) ==
    IF cs = <<>> THEN 0
    ELSE IF is_ascii_digit(Head(cs)) THEN 1 + consumed_len(Tail(cs), TRUE)
    ELSE IF Head(cs) \in {".", ",", " ", "'"} /\ has_digit
         THEN 1 + consumed_len(Tail(cs), has_digit)
    ELSE 0

\* fn consume_number(chars: &mut Peekable<Chars>) -> String, with the stream
\* it leaves behind
consume_number(cs) ==
    LET n == consumed_len(cs, FALSE)
        num_str == SubSeq(cs, 1, n)
    IN  [num_str |-> IF n > 0 THEN normalize_number(num_str) ELSE num_str,
         rest |-> SubSeq(cs, n + 1, Len(cs))]

\* what one iteration of the scan leaves: the stream, the tokens, an error
Scanned(cs, toks) == [chars |-> cs, tokens |-> toks, err |-> "", ch |-> ""]
ScanErr(e, c) == [chars |-> <<>>, tokens |-> <<>>, err |-> e, ch |-> c]

\* variant: the policy is ignored, the literal is always divided first
percent_value_divide_first(num, dec, strategy) ==
    round_value(RDiv(num, FromInt(100)), dec)

\* the percent policy applied to a literal followed by '%'
percent_value(num, dec, strategy) ==
    IF strategy = "DivideBy100ThenRound"
    THEN round_value(RDiv(num, FromInt(100)), dec)
    ELSE RDiv(round_value(num, dec), FromInt(100))

\* variant: a literal without '%' enters the token sequence unrounded
digit_arm_unrounded(cs, toks, dec, strategy) ==
    LET cn == consume_number(cs)
    IN  IF ~parse_ok(cn.num_str) THEN ScanErr("InvalidExpression", "")
        ELSE LET num == parse_f64(cn.num_str)
             IN  IF cn.rest # <<>> /\ Head(cn.rest) = "%"
                 THEN Scanned(Tail(cn.rest),
                              Append(toks, Number(percent_value(num, dec, strategy))))
                 ELSE Scanned(cn.rest, Append(toks, Number(num)))

\* the arm '0'..='9' of tokenize_and_round
digit_arm(cs, toks, dec, strategy) ==
    LET cn == consume_number(cs)
    IN  IF ~parse_ok(cn.num_str) THEN ScanErr("InvalidExpression", "")
        ELSE LET num == parse_f64(cn.num_str)
             IN  IF cn.rest # <<>> /\ Head(cn.rest) = "%"
                 THEN Scanned(Tail(cn.rest),
                              Append(toks, Number(percent_value(num, dec, strategy))))
                 ELSE Scanned(cn.rest, Append(toks, Number(round_value(num, dec))))

\* variant: a '-' after a '-' is not unary
is_unary_not_after_minus(toks) ==
    \/ toks = <<>>
    \/ Last(toks).type \in {"LeftParen", "Add", "Multiply", "Divide"}

\* `is_unary` of the arm '-'
is_unary(toks) ==
    \/ toks = <<>>
    \/ Last(toks).type \in {"LeftParen", "Add", "Subtract", "Multiply", "Divide"}

\* the arm '-' of tokenize_and_round; cs is the stream after the '-'
minus_arm(cs, toks, dec, strategy) ==
    IF is_unary(toks)
    THEN LET cn == consume_number(cs)
         IN  IF cn.num_str = <<>> THEN ScanErr("InvalidExpression", "")
             ELSE IF ~parse_ok(cn.num_str) THEN ScanErr("InvalidExpression", "")
             ELSE LET num == RNeg(parse_f64(cn.num_str))
                  IN  IF cn.rest # <<>> /\ Head(cn.rest) = "%"
                      THEN Scanned(Tail(cn.rest),
                               Append(toks, Number(percent_value(num, dec, strategy))))
                      ELSE Scanned(cn.rest, Append(toks, Number(round_value(num, dec))))
    ELSE Scanned(cs, Append(toks, Op("Subtract")))

\* variant: a character outside the alphabet is skipped like white space
tokenize_step_skip_unknown(cs, toks, dec, strategy) ==
    LET c == Head(cs)
    IN  CASE is_ascii_digit(c) -> digit_arm(cs, toks, dec, strategy)
          [] c = "+" -> Scanned(Tail(cs), Append(toks, Op("Add")))
          [] c = "-" -> minus_arm(Tail(cs), toks, dec, strategy)
          [] c = "*" -> Scanned(Tail(cs), Append(toks, Op("Multiply")))
          [] c = "/" -> Scanned(Tail(cs), Append(toks, Op("Divide")))
          [] c = "(" -> Scanned(Tail(cs), Append(toks, Op("LeftParen")))
          [] c = ")" -> Scanned(Tail(cs), Append(toks, Op("RightParen")))
          [] OTHER -> Scanned(Tail(cs), toks)

\* variant: only the space is white space
tokenize_step_space_only(cs, toks, dec, strategy) ==
    LET c == Head(cs)
    IN  CASE is_ascii_digit(c) -> digit_arm(cs, toks, dec, strategy)
          [] c = "+" -> Scanned(Tail(cs), Append(toks, Op("Add")))
          [] c = "-" -> minus_arm(Tail(cs), toks, dec, strategy)
          [] c = "*" -> Scanned(Tail(cs), Append(toks, Op("Multiply")))
          [] c = "/" -> Scanned(Tail(cs), Append(toks, Op("Divide")))
          [] c = "(" -> Scanned(Tail(cs), Append(toks, Op("LeftParen")))
          [] c = ")" -> Scanned(Tail(cs), Append(toks, Op("RightParen")))
          [] c = " " -> Scanned(Tail(cs), toks)
          [] OTHER -> ScanErr("InvalidCharacter", c)

\* one iteration of `while let Some(&c) = chars.peek()` in tokenize_and_round
tokenize_step(cs, toks, dec, strategy) ==
    LET c == Head(cs)
    IN  CASE is_ascii_digit(c) -> digit_arm(cs, toks, dec, strategy)
          [] c = "+" -> Scanned(Tail(cs), Append(toks, Op("Add")))
          [] c = "-" -> minus_arm(Tail(cs), toks, dec, strategy)
          [] c = "*" -> Scanned(Tail(cs), Append(toks, Op("Multiply")))
          [] c = "/" -> Scanned(Tail(cs), Append(toks, Op("Divide")))
          [] c = "(" -> Scanned(Tail(cs), Append(toks, Op("LeftParen")))
          [] c = ")" -> Scanned(Tail(cs), Append(toks, Op("RightParen")))
          [] c \in {" ", "\t", "\n"} -> Scanned(Tail(cs), toks)
          [] OTHER -> ScanErr("InvalidCharacter", c)

----------------------------------------------------------------------------
(* Shunting-yard converter *)

Shunted(out, stack) == [out |-> out, stack |-> stack, err |-> ""]
ShuntErr(e) == [out |-> <<>>, stack |-> <<>>, err |-> e]

\* the while loop of the RightParen arm
RECURSIVE pop_to_paren(_, _)
pop_to_paren(out, stack) ==
    IF stack # <<>> /\ Last(stack).type # "LeftParen"
    THEN pop_to_paren(Append(out, Last(stack)), Front(stack))
    ELSE Shunted(out, stack)

\* the RightParen arm
right_paren_arm(out, stack) ==
    LET p == pop_to_paren(out, stack)
    IN  IF p.stack = <<>> THEN ShuntErr("MismatchedParens")
        ELSE Shunted(p.out, Front(p.stack))

\* variant: operators of equal precedence are not popped (right-associative)
pops_top_strict(top_op, token) == precedence(top_op) > precedence(token)

\* the condition under which the operator arm pops the stack top
pops_top(top_op, token) == precedence(top_op) >= precedence(token)

\* the while loop of the operator arm
RECURSIVE pop_operators(_, _, _)
pop_operators(out, stack, token) ==
    IF stack # <<>> /\ Last(stack).type # "LeftParen" /\ pops_top(Last(stack), token)
    THEN pop_operators(Append(out, Last(stack)), Front(stack), token)
    ELSE Shunted(out, stack)

\* variant: the operators popped by the operator arm are thrown away
operator_arm_drops_popped(out, stack, token) ==
    LET p == pop_operators(out, stack, token)
    IN  Shunted(out, Append(p.stack, token))

\* the operator arm
operator_arm(out, stack, token) ==
    LET p == pop_operators(out, stack, token)
    IN  Shunted(p.out, Append(p.stack, token))

\* one iteration of `for token in tokens.iter().cloned()` in shunt_to_rpn
shunt_step(token, out, stack) ==
    CASE token.type = "Number" -> Shunted(Append(out, token), stack)
      [] token.type = "LeftParen" -> Shunted(out, Append(stack, token))
      [] token.type = "RightParen" -> right_paren_arm(out, stack)
      [] OTHER -> operator_arm(out, stack, token)

\* variant: a left parenthesis left on the stack is dropped silently
RECURSIVE drain_stack_lenient(_, _)
drain_stack_lenient(out, stack) ==
    IF stack = <<>> THEN Shunted(out, stack)
    ELSE IF Last(stack).type = "LeftParen" THEN drain_stack_lenient(out, Front(stack))
    ELSE drain_stack_lenient(Append(out, Last(stack)), Front(stack))

\* the final loop of shunt_to_rpn: pop the remaining operators
RECURSIVE drain_stack(_, _)
drain_stack(out, stack) ==
    IF stack = <<>> THEN Shunted(out, stack)
    ELSE IF Last(stack).type = "LeftParen" THEN ShuntErr("MismatchedParens")
    ELSE drain_stack(Append(out, Last(stack)), Front(stack))

----------------------------------------------------------------------------
(* Postfix evaluator *)

Evaluated(stack) == [stack |-> stack, err |-> ""]
EvalErr(e) == [stack |-> <<>>, err |-> e]

\* variant: only an exact zero is refused as a divisor
is_zero_divisor_exact(rhs) == rhs.num = 0

\* rhs.abs() < 1e-9
is_zero_divisor(rhs) == RLtEps(RAbs(rhs), EPSILON)

\* variant: a missing operand is reported as UnexpectedEndOfExpression
apply_operator_end_of_expression(token, stack) ==
    IF Len(stack) < 2 THEN EvalErr("UnexpectedEndOfExpression")
    ELSE LET rhs == stack[Len(stack)]
             lhs == stack[Len(stack) - 1]
             below == SubSeq(stack, 1, Len(stack) - 2)
         IN  CASE token.type = "Add" -> Evaluated(Append(below, RAdd(lhs, rhs)))
               [] token.type = "Subtract" -> Evaluated(Append(below, RSub(lhs, rhs)))
               [] token.type = "Multiply" -> Evaluated(Append(below, RMul(lhs, rhs)))
               [] token.type = "Divide" ->
                     IF is_zero_divisor(rhs) THEN EvalErr("DivisionByZero")
                     ELSE Evaluated(Append(below, RDiv(lhs, rhs)))
               [] OTHER -> EvalErr("unreachable")

\* the operator arm of evaluate_rpn
apply_operator(token, stack) ==
    IF Len(stack) < 2 THEN EvalErr("InvalidExpression")
    ELSE LET rhs == stack[Len(stack)]
             lhs == stack[Len(stack) - 1]
             below == SubSeq(stack, 1, Len(stack) - 2)
         IN  CASE token.type = "Add" -> Evaluated(Append(below, RAdd(lhs, rhs)))
               [] token.type = "Subtract" -> Evaluated(Append(below, RSub(lhs, rhs)))
               [] token.type = "Multiply" -> Evaluated(Append(below, RMul(lhs, rhs)))
               [] token.type = "Divide" ->
                     IF is_zero_divisor(rhs) THEN EvalErr("DivisionByZero")
                     ELSE Evaluated(Append(below, RDiv(lhs, rhs)))
               [] OTHER -> EvalErr("unreachable")

\* one iteration of `for token in rpn_queue.iter().cloned()` in evaluate_rpn
evaluate_step(token, stack) ==
    IF token.type = "Number" THEN Evaluated(Append(stack, token.value))
    ELSE apply_operator(token, stack)

\* the tail of evaluate_rpn
evaluate_finish(stack) ==
    IF Len(stack) = 1 THEN Ok(stack[1]) ELSE Err("InvalidExpression", "")

\* variant: a difference of exactly 1e-9 is accepted
validate_match_inclusive(actual, exp) ==
    IF actual.state = "Ok"
    THEN LET diff == RAbs(RSub(actual.value, exp))
         IN  RLtEps(diff, EPSILON) \/ diff = EPSILON
    ELSE FALSE

\* the match of validate
validate_match(actual, exp) ==
    IF actual.state = "Ok"
    THEN RLtEps(RAbs(RSub(actual.value, exp)), EPSILON)
    ELSE FALSE

----------------------------------------------------------------------------
(* The functions as a whole: each loop run to its end *)

\* the `while let` loop of tokenize_and_round
RECURSIVE tokenize_loop(_, _, _, _)
tokenize_loop(cs, toks, dec, strategy) ==
    IF cs = <<>> THEN Scanned(cs, toks)
    ELSE LET r == tokenize_step(cs, toks, dec, strategy)
         IN  IF r.err # "" THEN r ELSE tokenize_loop(r.chars, r.tokens, dec, strategy)

\* fn tokenize_and_round(expr, decimals, rounding_strategy)
tokenize_and_round(e, dec, strategy) == tokenize_loop(e, <<>>, dec, strategy)

\* the `for token` loop of shunt_to_rpn and the final loop after it
RECURSIVE shunt_loop(_, _, _)
shunt_loop(ts, out, stack) ==
    IF ts = <<>> THEN drain_stack(out, stack)
    ELSE LET r == shunt_step(Head(ts), out, stack)
         IN  IF r.err # "" THEN r ELSE shunt_loop(Tail(ts), r.out, r.stack)

\* fn shunt_to_rpn(tokens)
shunt_to_rpn(ts) == shunt_loop(ts, <<>>, <<>>)

\* the `for token` loop of evaluate_rpn and its tail
RECURSIVE evaluate_loop(_, _)
evaluate_loop(q, stack) ==
    IF q = <<>> THEN evaluate_finish(stack)
    ELSE LET r == evaluate_step(Head(q), stack)
         IN  IF r.err # "" THEN Err(r.err, "") ELSE evaluate_loop(Tail(q), r.stack)

\* fn evaluate_rpn(rpn_queue)
evaluate_rpn(q) == evaluate_loop(q, <<>>)

\* pub fn calculate(expr, decimals, rounding_strategy)
calculate(e, dec, strategy) ==
    LET t == tokenize_and_round(e, dec, strategy)
    IN  IF t.err # "" THEN Err(t.err, t.ch)
        ELSE LET q == shunt_to_rpn(t.tokens)
             IN  IF q.err # "" THEN Err(q.err, "")
                 ELSE LET r == evaluate_rpn(q.out)
                      IN  IF r.state = "Ok" THEN Ok(round_value(r.value, dec)) ELSE r

\* pub fn validate(expr, expected, decimals, rounding_strategy)
validate(e, exp, dec, strategy) == validate_match(calculate(e, dec, strategy), exp)

----------------------------------------------------------------------------
(* The expected value of the validate tools (src/src/tools/mod.rs) *)

\* str::parse::<f64> on text that may start with a sign
parse_signed_ok(s) ==
    IF s # <<>> /\ Head(s) = "-" THEN parse_ok(Tail(s)) ELSE parse_ok(s)
parse_signed_f64(s) ==
    IF s # <<>> /\ Head(s) = "-" THEN RNeg(parse_f64(Tail(s))) ELSE parse_f64(s)

\* the number of characters consume_number_for_expected takes
RECURSIVE consumed_len_for_expected(_, _)
consumed_len_for_expected(cs, has_digit) ==
    IF cs = <<>> THEN 0
    ELSE IF is_ascii_digit(Head(cs)) THEN 1 + consumed_len_for_expected(Tail(cs), TRUE)
    ELSE IF Head(cs) \in {".", ",", " ", "'", "-"} /\ has_digit
         THEN 1 + consumed_len_for_expected(Tail(cs), has_digit)
    ELSE IF Head(cs) = "-" /\ ~has_digit
         THEN 1 + consumed_len_for_expected(Tail(cs), has_digit)
    ELSE 0

\* fn consume_number_for_expected(chars) -> String; what is left in the
\* stream is never looked at
consume_number_for_expected(cs) ==
    LET n == consumed_len_for_expected(cs, FALSE)
        num_str == SubSeq(cs, 1, n)
        has_digit == \E i \in 1..n : is_ascii_digit(cs[i])
    IN  IF has_digit THEN normalize_number(num_str) ELSE num_str

\* fn parse_expected_value(expected_str, decimals, strategy) -> Result<f64, _>
parse_expected_value(expected_str, dec, strategy) ==
    LET dummy_expr == trim(expected_str)
    IN  IF contains(dummy_expr, "%")
        THEN calculate(dummy_expr, dec, strategy)
        ELSE LET num_str == consume_number_for_expected(dummy_expr)
             IN  IF num_str # <<>>
                 THEN IF parse_signed_ok(num_str) THEN Ok(parse_signed_f64(num_str))
                      ELSE Err("InvalidExpression", "")
                 ELSE Err("InvalidExpression", "")

----------------------------------------------------------------------------
(* BatchValidateTool::run_tool (src/src/tools/mod.rs) *)

\* a character outside ASCII is written by its code point
PASS_MARKER == <<"(", "U+901A", "U+8FC7", ")">>

\* str::contains with a string pattern
contains_str(s, pat) ==
    \E i \in 1..(Len(s) - Len(pat) + 1) : SubSeq(s, i, i + Len(pat) - 1) = pat

\* expr_line.split('|').collect(): the pieces between the separators, an
\* empty line gives one empty piece
RECURSIVE split(_, _)
split(s, sep) ==
    IF ~contains(s, sep) THEN <<s>>
    ELSE LET i == CHOOSE k \in 1..Len(s) :
                      s[k] = sep /\ \A j \in 1..(k - 1) : s[j] # sep
         IN  <<SubSeq(s, 1, i - 1)>> \o split(SubSeq(s, i + 1, Len(s)), sep)

\* Vec<String>::join
RECURSIVE join(_, _)
join(v, sep) ==
    IF v = <<>> THEN <<>>
    ELSE IF Len(v) = 1 THEN v[1]
    ELSE v[1] \o sep \o join(Tail(v), sep)

\* Display of an unsigned integer
DigitChar(d) == <<"0", "1", "2", "3", "4", "5", "6", "7", "8", "9">>[d + 1]
RECURSIVE display_usize(_)
display_usize(n) ==
    IF n < 10 THEN <<DigitChar(n)>>
    ELSE display_usize(n \div 10) \o <<DigitChar(n % 10)>>

\* Display of an f64: sign, integer part and, when there is one, '.' and the
\* fraction without trailing zeros. The values displayed are read from a
\* decimal literal or come out of round_value, so the fraction ends.
RECURSIVE display_fraction(_, _)
display_fraction(rem, den) ==
    IF rem = 0 THEN <<>>
    ELSE <<DigitChar((rem * 10) \div den)>>
             \o display_fraction((rem * 10) % den, den)
display_f64(x) ==
    LET n == IF x.num < 0 THEN -x.num ELSE x.num
        frac == display_fraction(n % x.den, x.den)
    IN  (IF x.num < 0 THEN <<"-">> ELSE <<>>)
            \o display_usize(n \div x.den)
            \o (IF frac = <<>> THEN <<>> ELSE <<".">> \o frac)

\* {:?} of a CalcError
debug_error(e) ==
    IF e.err = "InvalidCharacter"
    THEN <<"I", "n", "v", "a", "l", "i", "d", "C", "h", "a", "r", "a",
              "c", "t", "e", "r">>
             \o <<"(", "'", e.ch, "'", ")">>
    ELSE IF e.err = "DivisionByZero" THEN <<"D", "i", "v", "i", "s", "i", "o", "n", "B", "y", "Z", "e",
              "r", "o">>
    ELSE IF e.err = "InvalidExpression"
    THEN <<"I", "n", "v", "a", "l", "i", "d", "E", "x", "p", "r", "e",
              "s", "s", "i", "o", "n">>
    ELSE <<"U", "n", "e", "x", "p", "e", "c", "t", "e", "d", "E", "n",
              "d", "O", "f", "E", "x", "p", "r", "e", "s", "s", "i", "o",
              "n">>

DIVIDE_BY_100_THEN_ROUND ==
    <<"d", "i", "v", "i", "d", "e", "_", "b", "y", "_", "1", "0",
              "0", "_", "t", "h", "e", "n", "_", "r", "o", "u", "n", "d">>
ROUND_THEN_DIVIDE_BY_100 ==
    <<"r", "o", "u", "n", "d", "_", "t", "h", "e", "n", "_", "d",
              "i", "v", "i", "d", "e", "_", "b", "y", "_", "1", "0", "0">>

\* fn parse_percent_rounding(strategy: &str) -> Result<PercentRounding, _>
parse_percent_rounding(strategy) ==
    IF strategy = DIVIDE_BY_100_THEN_ROUND
    THEN [state |-> "Ok", strategy |-> "DivideBy100ThenRound"]
    ELSE IF strategy = ROUND_THEN_DIVIDE_BY_100
    THEN [state |-> "Ok", strategy |-> "RoundThenDivideBy100"]
    ELSE [state |-> "Err", strategy |-> ""]

\* the head of every entry, with index + 1
line_prefix(i) == <<"U+884C", " ">> \o display_usize(i + 1) \o <<":", " ">>

\* the entry pushed when the line has no '|'
entry_format_error(i) ==
    line_prefix(i)
        \o <<"U+683C", "U+5F0F", "U+9519", "U+8BEF", " ", "-", " ",
              "U+9700", "U+8981", " ", "'", "e", "x", "p", "r", "e", "s",
              "s", "i", "o", "n", "|", "e", "x", "p", "e", "c", "t", "e",
              "d", "'", " ", "U+683C", "U+5F0F">>

entry_invalid_strategy(i, label_prefix, token) ==
    line_prefix(i) \o label_prefix
        \o <<"U+65E0", "U+6548", "U+7684", "U+767E", "U+5206", "U+6570",
              "U+5904", "U+7406", "U+7B56", "U+7565">>
        \o <<" ", "'">> \o token \o <<"'">>

entry_invalid_expected(i, label_prefix, field) ==
    line_prefix(i) \o label_prefix
        \o <<"U+65E0", "U+6548", "U+7684", "U+9884", "U+671F", "U+503C">>
        \o <<" ", "'">> \o field \o <<"'">>

entry_passed(i, label_prefix, expression, exp) ==
    line_prefix(i) \o label_prefix \o expression \o <<" ", "=", " ">>
        \o display_f64(exp) \o <<" ">> \o PASS_MARKER

entry_differs(i, label_prefix, expression, exp, actual) ==
    line_prefix(i) \o label_prefix \o expression \o <<" ", "U+2260", " ">>
        \o display_f64(exp) \o <<" ", "(", "U+5B9E", "U+9645", ":", " ">>
        \o display_f64(actual) \o <<")">>

entry_calc_error(i, label_prefix, expression, e) ==
    line_prefix(i) \o label_prefix \o expression
        \o <<" ", "-", " ", "U+8BA1", "U+7B97", "U+9519", "U+8BEF", ":",
              " ">>
        \o debug_error(e)

\* let label = ..; let label_prefix = ..
label_prefix_of(parts) ==
    LET label == IF Len(parts) > 2 THEN trim(parts[3]) ELSE <<>>
    IN  IF label = <<>> THEN <<>> ELSE <<"[">> \o label \o <<"]", " ">>

\* results.iter().filter(|r| r.contains(PASS_MARKER)).count()
passed_count(entries) ==
    Cardinality({k \in 1..Len(entries) : contains_str(entries[k], PASS_MARKER)})

SUMMARY_HEAD == <<"U+6279", "U+91CF", "U+9A8C", "U+8BC1", "U+5B8C", "U+6210",
              "U+FF01">>
SUMMARY_TAIL == <<"U+4E2A", "U+8868", "U+8FBE", "U+5F0F", "U+901A", "U+8FC7",
              "U+9A8C", "U+8BC1">>

\* format!(".. {} ..", params.expressions.len()) of the all_passed branch
summary_all(total) ==
    SUMMARY_HEAD \o <<"U+6240", "U+6709", " ">> \o display_usize(total)
        \o <<" ", "U+4E2A", "U+8868", "U+8FBE", "U+5F0F", "U+5747", "U+901A",
             "U+8FC7", "U+9A8C", "U+8BC1">>

\* format!(".. {}/{} ..", passed_count, total_count)
summary_some(passed, total) ==
    SUMMARY_HEAD \o display_usize(passed) \o <<"/">>
        \o display_usize(total) \o <<" ">> \o SUMMARY_TAIL

\* the first line of the report
summary(entries, all, total) ==
    IF all THEN summary_all(total)
    ELSE summary_some(passed_count(entries), total)

\* vec![summary, ""] extended by the entries and joined by newlines
report(entries, all, total) ==
    join(<<summary(entries, all, total), <<>>>> \o entries, <<"\n">>)

\* variant: a vector keeps what the previous call left in it
new_vec_left_behind(left_behind) == left_behind

\* Vec::new(): every call starts from empty vectors, whatever the previous
\* call left behind
new_vec(left_behind) == <<>>

----------------------------------------------------------------------------
(* Inputs *)

MaxItems == 3        \* longest expression built from arbitrary items
MaxOps == 2          \* most operators in a generated operand/operator chain
MaxDecimals == 1     \* largest `decimals` tried on the generated expressions
ExampleDecimals == 2 \* largest `decimals` tried on the listed expressions
MaxCalls == 2        \* most calls made in a row
MaxNumerator == 24   \* largest numerator of a value handed to round_value
MaxDenominator == 8  \* largest denominator of a value handed to round_value
MaxExpectedLen == 3  \* longest expected text handed to parse_expected_value
MaxNumeralLen == 5   \* longest numeral handed to normalize_number

\* lexical items: an item is a sequence of characters
Two == <<"2">>
Half == <<"0", ".", "5">>
TwoHalfPct == <<"2", ".", "5", "%">>
Plus == <<"+">>
Minus == <<"-">>
Times == <<"*">>
Slash == <<"/">>
LParen == <<"(">>
RParen == <<")">>
Space == <<" ">>
Tab == <<"\t">>
Newline == <<"\n">>
Pct == <<"%">>
At == <<"@">>

NumeralItems == {Two, Half, TwoHalfPct}
ChainOperands == {Half, TwoHalfPct}
OperatorItems == {Plus, Minus, Times, Slash}
ItemAlphabet == NumeralItems \cup OperatorItems \cup {LParen, RParen, Space, Pct, At}

RECURSIVE SeqsUpTo(_, _)
SeqsUpTo(S, n) ==
    IF n = 0 THEN {<<>>}
    ELSE LET shorter == SeqsUpTo(S, n - 1)
         IN  shorter \cup {Append(s, x) : s \in {t \in shorter : Len(t) = n - 1}, x \in S}

\* operand (operator operand)^k
RECURSIVE Chains(_)
Chains(k) ==
    IF k = 0 THEN {<<n>> : n \in ChainOperands}
    ELSE {c \o <<o, n>> : c \in Chains(k - 1), o \in OperatorItems, n \in ChainOperands}

\* a chain with one pair of parentheses around operands i..j
Grouped(c) ==
    LET n == (Len(c) + 1) \div 2
    IN  {SubSeq(c, 1, 2 * p[1] - 2) \o <<LParen>>
           \o SubSeq(c, 2 * p[1] - 1, 2 * p[2] - 1)
           \o <<RParen>> \o SubSeq(c, 2 * p[2], Len(c)) :
             p \in {q \in (1..n) \X (1..n) : q[1] <= q[2]}}

ChainExprs ==
    LET cs == UNION {Chains(k) : k \in 0..MaxOps}
    IN  cs \cup UNION {Grouped(c) : c \in cs}

GeneratedExprs == SeqsUpTo(ItemAlphabet, MaxItems) \cup ChainExprs

\* str::chars of the expression written as the items
RECURSIVE Flatten(_)
Flatten(its) == IF its = <<>> THEN <<>> ELSE Head(its) \o Flatten(Tail(its))

expr == Flatten(items)

\* the expressions of the repository's tests and of its documentation
Zero_ == <<"0">>
One == <<"1">>
Three == <<"3">>
Four == <<"4">>
Five == <<"5">>
Eight == <<"8">>
Hundred == <<"1", "0", "0">>
FourTenths == <<"0", ".", "4">>
N1_235 == <<"1", ".", "2", "3", "5">>
N2_564 == <<"2", ".", "5", "6", "4">>
N50_126Pct == <<"5", "0", ".", "1", "2", "6", "%">>
N0_04Pct == <<"0", ".", "0", "4", "%">>
HalfPct == <<"0", ".", "5", "%">>

ExampleExprs ==
    { <<N1_235, Space, Plus, Space, N2_564>>,             \* "1.235 + 2.564"
      <<Half, Space, Times, Space, Hundred>>,             \* "0.5 * 100"
      <<Eight, Space, Minus, Space, Three, Space, Minus, Space, Two>>,
      <<Eight, Space, Slash, Space, Four, Space, Slash, Space, Two>>,
      <<One, Space, Plus, Space, Two, Space, Times, Space, Three>>,
      <<LParen, One, Space, Plus, Space, Two, RParen, Space, Times, Space, Three>>,
      <<Two, Space, Times, Space, LParen, Three, Space, Plus, Space, Four, RParen>>,
      <<N50_126Pct>>,                                     \* "50.126%"
      <<Minus, N50_126Pct>>,                              \* "-50.126%"
      <<N50_126Pct, Space, Times, Space, Hundred>>,       \* "50.126% * 100"
      <<Minus, Five, Space, Times, Space, Minus, Three>>, \* "-5 * -3"
      <<Five, Space, Minus, Space, Minus, Space, Three>>, \* "5 - - 3"
      <<Five, Space, Slash, Space, Zero_>>,               \* "5 / 0"
      <<Five, Space, Slash, Space, FourTenths>>,          \* "5 / 0.4"
      <<One, Space, Slash, Space, LParen, Two, Space, Minus, Space, Two, RParen>>,
      \* "1 / (0.04% * 0.04% * 0.5%)": a divisor of 8e-10 at 2 decimals
      <<One, Space, Slash, Space, LParen, N0_04Pct, Space, Times, Space, N0_04Pct,
        Space, Times, Space, HalfPct, RParen>>,
      <<LParen, One, Space, Plus>>,                       \* "(1 +"
      <<LParen, One, Space, Slash, Space, Zero_>>,        \* "(1 / 0"
      <<One, Space, Plus, Space, Two, RParen>>,           \* "1 + 2)"
      <<LParen, LParen, One, Space, Plus, Space, Two, RParen>>,
      \* token sequences that are not infix expressions
      <<One, Space, Plus>>,                               \* "1 +"
      <<Times, Space, Two>>,                              \* "* 2"
      <<One, Space, Plus, Space, Plus, Space, Two>>,      \* "1 + + 2"
      <<Plus, Space, LParen, One, RParen, Space, LParen, Two, RParen>>,
      <<LParen, One, RParen, Space, LParen, Two, RParen, Space, Plus>>,
      <<LParen, One, RParen, LParen, Two, RParen>>,       \* "(1)(2)"
      <<>>,                                               \* ""
      \* white space
      <<One, Tab, Plus, Tab, Two>>,                       \* "1<tab>+<tab>2"
      <<One, Newline, Plus, Newline, Two>>,               \* "1<newline>+<newline>2"
      <<Space, One, Space, Space, Plus, Space, Two, Space>>, \* " 1  + 2 "
      <<One, Tab, Two>>,                                  \* "1<tab>2"
      <<One, Space, Plus, Space, Two, Space, Three>>,     \* "1 + 2 3"
      <<One, Space, Two>>,                                \* "1 2"
      <<One, Space, Times, Space, Two>>,                  \* "1 * 2"
      <<<<"1", ".", "2", ".", "3">>>>,                    \* "1.2.3"
      <<TwoHalfPct, Space, Times, Tab, Two, Space, Pct>>, \* "2.5% *<tab>2 %"
      <<Five, Space, Times>>,                             \* "5 *"
      <<Five, Space, Times, Space, Minus>>,               \* "5 * -"
      \* characters outside the alphabet of the scan
      <<LParen, One, Space, Slash, Space, Zero_, Space, At>>, \* "(1 / 0 @"
      <<<<".">>, Five>>,                                  \* ".5"
      <<One, <<"\r">>>>,                                  \* "1<CR>"
      <<One, Space, Plus, Space, Pct>>,                   \* "1 + %"
      <<LParen, RParen>> }                                \* "()"

\* the expressions of the first call when several calls are made in a row
FirstCalls == ExampleExprs \cup Chains(0) \cup Chains(1)

\* the calls made after another call has returned
NextCalls ==
    { << <<N1_235, Space, Plus, Space, N2_564>>, 2, "DivideBy100ThenRound" >>,
      << <<N50_126Pct, Space, Times, Space, Hundred>>, 2, "RoundThenDivideBy100" >>,
      << <<LParen, One, Space, Slash, Space, Zero_>>, 0, "DivideBy100ThenRound" >> }

\* the `expected` values tried by validate
ExpectedValues ==
    { Zero, Rat(1, 2), EPSILON, Rat(1, 2 * EPSILON.den) }

\* the arithmetic of the model stays inside TLC's 32-bit integers
MaxInt == 2 ^ 30 + (2 ^ 30 - 1)
Representable(actual, exp) ==
    actual.state = "Ok" =>
        LET l == LCM(actual.value.den, exp.den)
        IN  Abs(actual.value.num) <= (MaxInt \div (l \div actual.value.den)) - 1

\* the numerals handed to normalize_number: what consume_number can take
\* (a digit, then digits and separators), over a reduced alphabet
NumeralAlphabet == {"1", "5", ".", ",", " ", "'"}
AdvertisedNumerals ==
    { <<"1", ",", "2", "3", "4", ".", "5", "6">>,    \* "1,234.56"
      <<"1", ".", "2", "3", "4", ",", "5", "6">>,    \* "1.234,56"
      <<"1", " ", "2", "3", "4", ",", "5", "6">>,    \* "1 234,56"
      <<"1", "'", "2", "3", "4", ".", "5", "6">>,    \* "1'234.56"
      <<"1", " ", "2", "3", "4", ".", "5", "6">>,    \* "1 234.56"
      <<"1", ".", "2", "3", "4", ",", "5", "6", "7", ".", "8", "9">>,
      <<"1", ",", "2", "3", "4", ".", "5", "6", "7", ",", "8", "9">>,
      <<"1", "2", "3", ",", "4", "5">>,              \* "123,45"
      <<"1", ",", "2", "3", "4">>,                   \* "1,234"
      <<"1", ",", "0", "0", "0", ",", "0", "0", "0", ".", "0", "0">>,
      <<"1", ".", "0", "0", "0", ".", "0", "0", "0", ",", "5", "0">> }
Numerals ==
    {s \in SeqsUpTo(NumeralAlphabet, MaxNumeralLen) : s # <<>> /\ is_ascii_digit(s[1])}
        \cup AdvertisedNumerals

----------------------------------------------------------------------------
(* calculate and validate, step by step *)

Idle ==
    /\ chars = <<>> /\ tokens = <<>> /\ queue_in = <<>>
    /\ output_queue = <<>> /\ operator_stack = <<>> /\ operand_stack = <<>>
    /\ result = Zero /\ returned = Pending
    /\ expected = Zero /\ verdict = FALSE

Init ==
    /\ pc = "tokenize"
    /\ \E call \in (GeneratedExprs \X (0..MaxDecimals))
                       \cup (ExampleExprs \X (0..ExampleDecimals)) :
          items = call[1] /\ decimals = call[2]
    /\ rounding_strategy \in PercentRounding
    /\ chars = Flatten(items)
    /\ tokens = <<>> /\ queue_in = <<>>
    /\ output_queue = <<>> /\ operator_stack = <<>> /\ operand_stack = <<>>
    /\ result = Zero /\ returned = Pending
    /\ expected = Zero /\ verdict = FALSE
    /\ input = <<>> /\ normalized = <<>>
    /\ calls = 1 /\ rounded = <<>>
    /\ BatchIdle

\* calculate fails: the `?` of one of its three steps
Fail(e, c) ==
    /\ returned' = Err(e, c)
    /\ pc' = "done"

\* tokenize_and_round: one iteration of the scan
TokenizeStep ==
    /\ pc = "tokenize" /\ chars # <<>>
    /\ LET r == tokenize_step(chars, tokens, decimals, rounding_strategy)
       IN  IF r.err = ""
           THEN chars' = r.chars /\ tokens' = r.tokens /\ UNCHANGED <<pc, returned>>
           ELSE Fail(r.err, r.ch) /\ UNCHANGED <<chars, tokens>>
    /\ UNCHANGED <<items, decimals, rounding_strategy, queue_in, output_queue,
                   operator_stack, operand_stack, result, expected, verdict,
                   input, normalized, calls, rounded, batch_vars>>

\* tokenize_and_round returns Ok(tokens); calculate calls shunt_to_rpn(&tokens)
TokenizeReturn ==
    /\ pc = "tokenize" /\ chars = <<>>
    /\ pc' = "shunt"
    /\ queue_in' = tokens
    /\ UNCHANGED <<items, decimals, rounding_strategy, chars, tokens, output_queue,
                   operator_stack, operand_stack, result, returned, expected,
                   verdict, input, normalized, calls, rounded, batch_vars>>

\* shunt_to_rpn: one iteration of the loop over the tokens
ShuntStep ==
    /\ pc = "shunt" /\ queue_in # <<>>
    /\ LET r == shunt_step(Head(queue_in), output_queue, operator_stack)
       IN  IF r.err = ""
           THEN /\ output_queue' = r.out /\ operator_stack' = r.stack
                /\ queue_in' = Tail(queue_in)
                /\ UNCHANGED <<pc, returned>>
           ELSE Fail(r.err, "") /\ UNCHANGED <<output_queue, operator_stack, queue_in>>
    /\ UNCHANGED <<items, decimals, rounding_strategy, chars, tokens,
                   operand_stack, result, expected, verdict, input, normalized, calls, rounded,
                   batch_vars>>

\* shunt_to_rpn: the remaining operators are popped; calculate calls
\* evaluate_rpn(&rpn_queue)
ShuntReturn ==
    /\ pc = "shunt" /\ queue_in = <<>>
    /\ LET r == drain_stack(output_queue, operator_stack)
       IN  IF r.err = ""
           THEN /\ output_queue' = r.out /\ operator_stack' = r.stack
                /\ queue_in' = r.out
                /\ pc' = "evaluate"
                /\ UNCHANGED returned
           ELSE Fail(r.err, "") /\ UNCHANGED <<output_queue, operator_stack, queue_in>>
    /\ UNCHANGED <<items, decimals, rounding_strategy, chars, tokens,
                   operand_stack, result, expected, verdict, input, normalized, calls, rounded,
                   batch_vars>>

\* evaluate_rpn: one iteration of the loop over the postfix sequence
EvaluateStep ==
    /\ pc = "evaluate" /\ queue_in # <<>>
    /\ LET r == evaluate_step(Head(queue_in), operand_stack)
       IN  IF r.err = ""
           THEN /\ operand_stack' = r.stack
                /\ queue_in' = Tail(queue_in)
                /\ UNCHANGED <<pc, returned>>
           ELSE Fail(r.err, "") /\ UNCHANGED <<operand_stack, queue_in>>
    /\ UNCHANGED <<items, decimals, rounding_strategy, chars, tokens, output_queue,
                   operator_stack, result, expected, verdict, input, normalized, calls, rounded,
                   batch_vars>>

\* evaluate_rpn returns: exactly one operand is the value, anything else an error
EvaluateReturn ==
    /\ pc = "evaluate" /\ queue_in = <<>>
    /\ LET r == evaluate_finish(operand_stack)
       IN  IF r.state = "Ok"
           THEN result' = r.value /\ pc' = "round" /\ UNCHANGED returned
           ELSE Fail(r.err, "") /\ UNCHANGED result
    /\ UNCHANGED <<items, decimals, rounding_strategy, chars, tokens, queue_in,
                   output_queue, operator_stack, operand_stack, expected, verdict,
                   input, normalized, calls, rounded, batch_vars>>

\* the value calculate returns for the evaluated `result`
final_value(res, dec) == round_value(res, dec)

\* calculate: Ok(round_value(result, decimals))
RoundResult ==
    /\ pc = "round"
    /\ returned' = Ok(final_value(result, decimals))
    /\ pc' = "done"
    /\ UNCHANGED <<items, decimals, rounding_strategy, chars, tokens, queue_in,
                   output_queue, operator_stack, operand_stack, result, expected,
                   verdict, input, normalized, calls, rounded, batch_vars>>

\* validate: the match on what calculate returned
Validate ==
    /\ pc = "done"
    /\ \E e \in ExpectedValues :
          /\ Representable(returned, e)
          /\ expected' = e
          /\ verdict' = validate_match(returned, e)
    /\ pc' = "validated"
    /\ UNCHANGED <<items, decimals, rounding_strategy, chars, tokens, queue_in,
                   output_queue, operator_stack, operand_stack, result, returned,
                   input, normalized, calls, rounded, batch_vars>>

\* another call of calculate after one has returned: the same call again, or
\* one of NextCalls.  The functions own no static data: all their variables
\* are locals created at entry.
CallAgain ==
    /\ pc \in {"done", "validated"}
    /\ calls < MaxCalls
    /\ \E call \in NextCalls \cup {<<items, decimals, rounding_strategy>>} :
          /\ items' = call[1] /\ decimals' = call[2] /\ rounding_strategy' = call[3]
          /\ chars' = Flatten(call[1])
    /\ pc' = "tokenize"
    /\ tokens' = new_vec(tokens)
    /\ output_queue' = new_vec(output_queue)
    /\ operator_stack' = new_vec(operator_stack)
    /\ operand_stack' = new_vec(operand_stack)
    /\ queue_in' = <<>>
    /\ result' = Zero /\ returned' = Pending
    /\ expected' = Zero /\ verdict' = FALSE
    /\ calls' = calls + 1
    /\ UNCHANGED <<input, normalized, rounded, batch_vars>>

Next ==
    \/ TokenizeStep
    \/ TokenizeReturn
    \/ ShuntStep
    \/ ShuntReturn
    \/ EvaluateStep
    \/ EvaluateReturn
    \/ RoundResult
    \/ Validate

Spec == Init /\ [][Next]_vars

\* several calls in a row, the first one drawn from FirstCalls
InitCalls == Init /\ items \in FirstCalls
NextWithCalls == Next \/ CallAgain
SpecCalls == InitCalls /\ [][NextWithCalls]_vars

----------------------------------------------------------------------------
(* normalize_number on its own *)

InitNormalize ==
    /\ pc = "normalize"
    /\ input \in Numerals
    /\ normalized = <<>>
    /\ items = <<>> /\ decimals = 0 /\ rounding_strategy = "DivideBy100ThenRound"
    /\ Idle /\ calls = 0 /\ rounded = <<>>
    /\ BatchIdle

Normalize ==
    /\ pc = "normalize"
    /\ normalized' = normalize_number(input)
    /\ pc' = "normalized"
    /\ UNCHANGED <<items, decimals, rounding_strategy, chars, tokens, queue_in,
                   output_queue, operator_stack, operand_stack, result, returned,
                   expected, verdict, input, calls, rounded, batch_vars>>

NextNormalize == Normalize

SpecNormalize == InitNormalize /\ [][NextNormalize]_vars

----------------------------------------------------------------------------
(* parse_expected_value on its own *)

ExpectedAlphabet == {"1", "5", ".", ",", "-", "%", "+", "a", " "}
ExpectedExamples ==
    { <<"5", "0", "%", " ", "+", " ", "1">>,      \* "50% + 1"
      <<"1", "+", "2">>,                          \* "1+2"
      <<"3", "a", "b", "c">>,                     \* "3abc"
      <<"-", "1", ",", "2", "3", "4", ".", "5">>, \* "-1,234.5"
      <<"5", "0", ".", "1", "2", "6", "%">>,      \* "50.126%"
      <<"(", "5", "0", "%", ")">>,                \* "(50%)"
      <<"5", "-", "3">> }                         \* "5-3"
ExpectedTexts == SeqsUpTo(ExpectedAlphabet, MaxExpectedLen) \cup ExpectedExamples

InitExpected ==
    /\ pc = "parse_expected"
    /\ input \in ExpectedTexts
    /\ decimals \in 0..MaxDecimals
    /\ rounding_strategy \in PercentRounding
    /\ items = <<>> /\ normalized = <<>> /\ calls = 0 /\ rounded = <<>>
    /\ Idle /\ BatchIdle

\* the validate tools read their `expected` field
ParseExpected ==
    /\ pc = "parse_expected"
    /\ returned' = parse_expected_value(input, decimals, rounding_strategy)
    /\ pc' = "parsed"
    /\ UNCHANGED <<items, decimals, rounding_strategy, chars, tokens, queue_in,
                   output_queue, operator_stack, operand_stack, result,
                   expected, verdict, input, normalized, calls, rounded,
                   batch_vars>>

NextExpected == ParseExpected

SpecExpected == InitExpected /\ [][NextExpected]_vars

----------------------------------------------------------------------------
(* The batch tool on its own *)

MaxLines == 2  \* lines in one batch

BatchLines ==
    {
      \* passes: "1+1|2"
      <<"1", "+", "1", "|", "2">>,
      \* differs: "1+1|3"
      <<"1", "+", "1", "|", "3">>,
      \* differs, the label is the pass marker: "1+1|3|(U+901AU+8FC7)"
      <<"1", "+", "1", "|", "3", "|", "(", "U+901A", "U+8FC7", ")">>,
      \* passes, labelled: "1+1|2|a"
      <<"1", "+", "1", "|", "2", "|", "a">>,
      \* calculation error: "1/0|1"
      <<"1", "/", "0", "|", "1">>,
      \* one field: "1+1"
      <<"1", "+", "1">>,
      \* expected is no number: "1+1|x"
      <<"1", "+", "1", "|", "x">>,
      \* four fields: "1+1|2|a|b"
      <<"1", "+", "1", "|", "2", "|", "a", "|", "b">>,
      \* empty line: ""
      <<>>,
      \* the expression is the pass marker: "(U+901AU+8FC7)|1"
      <<"(", "U+901A", "U+8FC7", ")", "|", "1">>,
      \* fields are trimmed: " 1+1 | 2 | a "
      <<" ", "1", "+", "1", " ", "|", " ", "2", " ", "|", " ", "a", " ">>,
      \* expected with a percent sign: "50%|0.5"
      <<"5", "0", "%", "|", "0", ".", "5">>,
      \* expected is a number followed by a letter: "1+1|2x"
      <<"1", "+", "1", "|", "2", "x">> }

PolicyTokens ==
    { DIVIDE_BY_100_THEN_ROUND, ROUND_THEN_DIVIDE_BY_100,
      <<"h", "a", "l", "f", "_", "e", "v", "e", "n">> }

InitBatch ==
    /\ pc = "batch"
    /\ expressions \in SeqsUpTo(BatchLines, MaxLines)
    /\ percent_rounding \in PolicyTokens
    /\ decimals \in 0..MaxDecimals
    /\ index = 0 /\ results = <<>> /\ all_passed = TRUE /\ output = <<>>
    /\ items = <<>> /\ rounding_strategy = "DivideBy100ThenRound"
    /\ input = <<>> /\ normalized = <<>> /\ calls = 0 /\ rounded = <<>>
    /\ Idle

\* results.push(entry), and all_passed = false unless the line passed
push_entry(entry, passed) ==
    /\ results' = Append(results, entry)
    /\ all_passed' = (all_passed /\ passed)

\* one turn of `for (index, expr_line) in params.expressions.iter().enumerate()`;
\* each local of the loop body is bound to its value once
BatchLine ==
    /\ pc = "batch"
    /\ index < Len(expressions)
    /\ \E parts \in {split(expressions[index + 1], "|")} :
         IF Len(parts) < 2
         THEN push_entry(entry_format_error(index), FALSE)
         ELSE
         \E expression \in {trim(parts[1])} :
         \E label_prefix \in {label_prefix_of(parts)} :
         \E strategy \in {parse_percent_rounding(percent_rounding)} :
           IF strategy.state = "Err"
           THEN push_entry(entry_invalid_strategy(index, label_prefix,
                                                  percent_rounding), FALSE)
           ELSE
           \E exp \in {parse_expected_value(trim(parts[2]), decimals,
                                            strategy.strategy)} :
             IF exp.state = "Err"
             THEN push_entry(entry_invalid_expected(index, label_prefix, parts[2]),
                             FALSE)
             ELSE
             \E is_valid \in {validate(expression, exp.value, decimals,
                                       strategy.strategy)} :
               IF is_valid
               THEN push_entry(entry_passed(index, label_prefix, expression,
                                            exp.value), TRUE)
               ELSE
               \E actual \in {calculate(expression, decimals, strategy.strategy)} :
                 IF actual.state = "Ok"
                 THEN push_entry(entry_differs(index, label_prefix, expression,
                                               exp.value, actual.value), FALSE)
                 ELSE push_entry(entry_calc_error(index, label_prefix,
                                                  expression, actual), FALSE)
    /\ index' = index + 1
    /\ UNCHANGED <<pc, items, decimals, rounding_strategy, chars, tokens, queue_in,
                   output_queue, operator_stack, operand_stack, result, returned,
                   expected, verdict, input, normalized, calls, rounded,
                   expressions, percent_rounding, output>>

\* after the loop: the summary and the report
BatchReport ==
    /\ pc = "batch"
    /\ index = Len(expressions)
    /\ output' = report(results, all_passed, Len(expressions))
    /\ pc' = "reported"
    /\ UNCHANGED <<items, decimals, rounding_strategy, chars, tokens, queue_in,
                   output_queue, operator_stack, operand_stack, result, returned,
                   expected, verdict, input, normalized, calls, rounded,
                   expressions, percent_rounding, index, results, all_passed>>

NextBatch == BatchLine \/ BatchReport

SpecBatch == InitBatch /\ [][NextBatch]_vars

----------------------------------------------------------------------------
(* round_value on its own, applied twice *)

RoundInputs ==
    {Rat(n, d) : n \in (-MaxNumerator)..MaxNumerator, d \in 1..MaxDenominator}

InitRound ==
    /\ pc = "round_value"
    /\ result \in RoundInputs
    /\ decimals \in 0..ExampleDecimals
    /\ rounded = <<>>
    /\ items = <<>> /\ rounding_strategy = "DivideBy100ThenRound"
    /\ chars = <<>> /\ tokens = <<>> /\ queue_in = <<>>
    /\ output_queue = <<>> /\ operator_stack = <<>> /\ operand_stack = <<>>
    /\ returned = Pending /\ expected = Zero /\ verdict = FALSE
    /\ input = <<>> /\ normalized = <<>> /\ calls = 0
    /\ BatchIdle

\* round_value(value, decimals), then round_value of what it returned
RoundValue ==
    /\ pc = "round_value" /\ Len(rounded) < 2
    /\ rounded' = Append(rounded,
                         round_value(IF rounded = <<>> THEN result ELSE Last(rounded),
                                     decimals))
    /\ UNCHANGED <<pc, items, decimals, rounding_strategy, chars, tokens, queue_in,
                   output_queue, operator_stack, operand_stack, result, returned,
                   expected, verdict, input, normalized, calls, batch_vars>>

NextRound == RoundValue

SpecRound == InitRound /\ [][NextRound]_vars

----------------------------------------------------------------------------
(* The reference reading of an expression, against which the engine is      *)
(* checked.  It is written from the grammar of arithmetic, not from the     *)
(* code: a literal is read digit by digit, rounding is "the nearest         *)
(* multiple of 10^-d, ties away from zero", and the value is computed by    *)
(* recursive descent over                                                   *)
(*     Expr ::= Term (("+" | "-") Term)*                                    *)
(*     Term ::= Factor (("*" | "/") Factor)*                                *)
(*     Factor ::= Number | "(" Expr ")"                                     *)

\* the nearest multiple of 10^-d to x, ties away from zero
RefRound(x, d) ==
    LET f == 10 ^ d
        lo == (x.num * f) \div x.den           \* floor(x * 10^d)
        below == x.num * f - lo * x.den        \* distance to lo, in 1/den
        above == (lo + 1) * x.den - x.num * f  \* distance to lo + 1
        m == IF below < above THEN lo
             ELSE IF above < below THEN lo + 1
             ELSE IF x.num >= 0 THEN lo + 1 ELSE lo
    IN  Rat(m, f)

\* a plain decimal numeral: digits, optionally '.' and digits, optionally '%'
RefBody(it) == IF it # <<>> /\ Last(it) = "%" THEN Front(it) ELSE it
RefIsNumeral(it) ==
    LET b == RefBody(it)
    IN  /\ b # <<>>
        /\ \A i \in 1..Len(b) : b[i] \in Digits \cup {"."}
        /\ b[1] \in Digits /\ b[Len(b)] \in Digits
        /\ Cardinality({i \in 1..Len(b) : b[i] = "."}) <= 1

\* the value of a plain decimal numeral, read left to right
RECURSIVE RefDigits(_, _, _)
RefDigits(b, acc, scale) ==
    IF b = <<>> THEN Rat(acc, IF scale = 0 THEN 1 ELSE scale)
    ELSE IF Head(b) = "." THEN RefDigits(Tail(b), acc, 1)
    ELSE RefDigits(Tail(b), 10 * acc + DigitVal(Head(b)),
                   IF scale = 0 THEN 0 ELSE 10 * scale)
RefDecimal(b) == RefDigits(b, 0, 0)

\* the Number a literal stands for: pre-rounded, with the percent policy
RefLiteral(it, negative, d, strategy) ==
    LET magnitude == RefDecimal(RefBody(it))
        x == IF negative THEN RNeg(magnitude) ELSE magnitude
    IN  IF Last(it) = "%"
        THEN IF strategy = "DivideBy100ThenRound"
             THEN RefRound(RDiv(x, FromInt(100)), d)
             ELSE RDiv(RefRound(x, d), FromInt(100))
        ELSE RefRound(x, d)

\* the tokens the items stand for.  A "-" where an operand is expected is the
\* sign of the numeral that follows it directly.  Not lexed (wf = FALSE): a
\* sign without its numeral, two numerals with no operator or parenthesis
\* between them, and any item that is neither numeral, operator, parenthesis
\* nor white space.
RECURSIVE RefLex(_, _, _, _)
RefLex(its, acc, d, strategy) ==
    LET operand_expected ==
            acc = <<>> \/ Last(acc).type \in Operators \cup {"LeftParen"}
        bad == [wf |-> FALSE, toks |-> <<>>]
    IN  IF its = <<>> THEN [wf |-> TRUE, toks |-> acc]
        ELSE LET it == Head(its)
             IN  CASE it \in {<<" ">>, <<"\t">>, <<"\n">>} ->
                        RefLex(Tail(its), acc, d, strategy)
                   [] RefIsNumeral(it) ->
                        IF acc # <<>> /\ Last(acc).type = "Number" THEN bad
                        ELSE RefLex(Tail(its),
                                    Append(acc, Number(RefLiteral(it, FALSE, d, strategy))),
                                    d, strategy)
                   [] it = <<"-">> /\ operand_expected ->
                        IF Len(its) >= 2 /\ RefIsNumeral(its[2])
                        THEN RefLex(Tail(Tail(its)),
                                    Append(acc, Number(RefLiteral(its[2], TRUE, d, strategy))),
                                    d, strategy)
                        ELSE bad
                   [] it = <<"-">> /\ ~operand_expected ->
                        RefLex(Tail(its), Append(acc, Op("Subtract")), d, strategy)
                   [] it = <<"+">> -> RefLex(Tail(its), Append(acc, Op("Add")), d, strategy)
                   [] it = <<"*">> ->
                        RefLex(Tail(its), Append(acc, Op("Multiply")), d, strategy)
                   [] it = <<"/">> ->
                        RefLex(Tail(its), Append(acc, Op("Divide")), d, strategy)
                   [] it = <<"(">> ->
                        RefLex(Tail(its), Append(acc, Op("LeftParen")), d, strategy)
                   [] it = <<")">> ->
                        RefLex(Tail(its), Append(acc, Op("RightParen")), d, strategy)
                   [] OTHER -> bad

\* the value of a token sequence by recursive descent
RefBad == [wf |-> FALSE, dz |-> FALSE, val |-> Zero, rest |-> <<>>]

RefApply(op, a, b) ==
    LET dz == a.dz \/ b.dz \/ (op = "Divide" /\ RLtEps(RAbs(b.val), EPSILON))
    IN  [wf |-> TRUE, dz |-> dz, rest |-> b.rest,
         val |-> IF dz THEN Zero
                 ELSE CASE op = "Add" -> RAdd(a.val, b.val)
                        [] op = "Subtract" -> RSub(a.val, b.val)
                        [] op = "Multiply" -> RMul(a.val, b.val)
                        [] op = "Divide" -> RDiv(a.val, b.val)]

RECURSIVE RefExpr(_), RefExprTail(_), RefTerm(_), RefTermTail(_), RefFactor(_)

RefFactor(ts) ==
    IF ts = <<>> THEN RefBad
    ELSE IF Head(ts).type = "Number"
         THEN [wf |-> TRUE, dz |-> FALSE, val |-> Head(ts).value, rest |-> Tail(ts)]
    ELSE IF Head(ts).type = "LeftParen"
         THEN LET e == RefExpr(Tail(ts))
              IN  IF e.wf /\ e.rest # <<>> /\ Head(e.rest).type = "RightParen"
                  THEN [e EXCEPT !.rest = Tail(e.rest)]
                  ELSE RefBad
    ELSE RefBad

RefTermTail(a) ==
    IF a.rest # <<>> /\ Head(a.rest).type \in {"Multiply", "Divide"}
    THEN LET b == RefFactor(Tail(a.rest))
         IN  IF b.wf THEN RefTermTail(RefApply(Head(a.rest).type, a, b)) ELSE RefBad
    ELSE a

RefTerm(ts) ==
    LET a == RefFactor(ts) IN IF a.wf THEN RefTermTail(a) ELSE RefBad

RefExprTail(a) ==
    IF a.rest # <<>> /\ Head(a.rest).type \in {"Add", "Subtract"}
    THEN LET b == RefTerm(Tail(a.rest))
         IN  IF b.wf THEN RefExprTail(RefApply(Head(a.rest).type, a, b)) ELSE RefBad
    ELSE a

RefExpr(ts) ==
    LET a == RefTerm(ts) IN IF a.wf THEN RefExprTail(a) ELSE RefBad

RefParse(ts) ==
    LET e == RefExpr(ts) IN IF e.wf /\ e.rest = <<>> THEN e ELSE RefBad

\* the reference reading of the run's expression
RefTokens == RefLex(items, <<>>, decimals, rounding_strategy)
RefValue == RefParse(RefTokens.toks)
RefWellFormed == RefTokens.wf /\ RefValue.wf

\* tokenize_and_round has returned Ok
TokenizeOk == pc # "tokenize" /\ chars = <<>>
\* tokenize_and_round has just returned Ok; shunt_to_rpn has just returned Ok
TokenizeReturned == pc = "shunt" /\ queue_in = tokens
ShuntReturned == pc = "evaluate" /\ queue_in = output_queue

NumbersOf(ts) == SelectSeq(ts, LAMBDA t : t.type = "Number")

Text_1_235_plus_2_564 == <<N1_235, Space, Plus, Space, N2_564>>
Text_half_times_100 == <<Half, Space, Times, Space, Hundred>>
Text_8_minus_3_minus_2 ==
    <<Eight, Space, Minus, Space, Three, Space, Minus, Space, Two>>
Text_8_div_4_div_2 ==
    <<Eight, Space, Slash, Space, Four, Space, Slash, Space, Two>>

----------------------------------------------------------------------------
(* Claims *)

C2_StandardReading ==
    /\ (pc = "done" /\ TokenizeOk)
          => LET v == RefParse(tokens)
             IN  (v.wf /\ ~v.dz) => returned.state = "Ok" /\ result = v.val
    /\ (pc = "done" /\ items = Text_8_minus_3_minus_2) => result = FromInt(3)
    /\ (pc = "done" /\ items = Text_8_div_4_div_2) => result = FromInt(1)

C2_Witness ==
    /\ pc = "done" /\ items = Text_8_minus_3_minus_2
    /\ RefParse(tokens).wf /\ result = FromInt(3) /\ returned = Ok(FromInt(3))

\* helpers of the normaliser claims, on the numeral as written
RefOnlyDigits(s) == SelectSeq(s, LAMBDA c : c \in Digits)
RefWithout(s, cs) == SelectSeq(s, LAMBDA c : c \notin cs)
RefHas(s, c) == c \in {s[i] : i \in 1..Len(s)}
RefOccurrences(s, c) == Cardinality({i \in 1..Len(s) : s[i] = c})
RefLastOf(s, cs) ==
    CHOOSE i \in 0..Len(s) :
        /\ i > 0 => s[i] \in cs
        /\ \A j \in (i + 1)..Len(s) : s[j] \notin cs
RefAfter(s, cs) == SubSeq(s, RefLastOf(s, cs) + 1, Len(s))
RefBefore(s, cs) == SubSeq(s, 1, RefLastOf(s, cs) - 1)
RefCommaToDot(s) == [i \in 1..Len(s) |-> IF s[i] = "," THEN "." ELSE s[i]]
RECURSIVE RefTrimEnd(_)
RefTrimEnd(s) ==
    IF s # <<>> /\ s[Len(s)] = " " THEN RefTrimEnd(SubSeq(s, 1, Len(s) - 1)) ELSE s
Text_1234_56 == <<"1", "2", "3", "4", ".", "5", "6">>
FourStyles ==
    { <<"1", ",", "2", "3", "4", ".", "5", "6">>,
      <<"1", ".", "2", "3", "4", ",", "5", "6">>,
      <<"1", " ", "2", "3", "4", ",", "5", "6">>,
      <<"1", "'", "2", "3", "4", ".", "5", "6">> }

\* C3: for every non-empty numeral of digits and . , space ' the result of
\* normalize_number contains no comma, no space, no apostrophe and at most one
\* '.'; "1,234.56", "1.234,56", "1 234,56" and "1'234.56" all give "1234.56".
C3_NormalizeCanonical ==
    pc = "normalized" =>
        /\ ~RefHas(normalized, ",") /\ ~RefHas(normalized, " ")
        /\ ~RefHas(normalized, "'")
        /\ RefOccurrences(normalized, ".") <= 1
        /\ input \in FourStyles => normalized = Text_1234_56

\* C4: when the numeral contains both ',' and '.', only the single rightmost
\* occurrence of either is the decimal separator (written '.'), and every
\* other ',' and '.', every space and every apostrophe is removed.
C4_RightmostIsDecimal ==
    (pc = "normalized" /\ RefHas(input, ",") /\ RefHas(input, "."))
        => normalized = RefOnlyDigits(RefBefore(input, {",", "."})) \o <<".">>
                           \o RefOnlyDigits(RefAfter(input, {",", "."}))

Text_50_126pct_times_100 == <<N50_126Pct, Space, Times, Space, Hundred>>
Text_5_div_0_4 == <<Five, Space, Slash, Space, FourTenths>>
Text_1_div_0 == <<LParen, One, Space, Slash, Space, Zero_>>

\* C6: a literal x followed by '%' becomes the Number round(x / 100, d) under
\* divide-then-round and round(x, d) / 100 under round-then-divide; without
\* '%' it becomes round(x, d).  "50.126% * 100" at 2 decimals differs between
\* the policies (50 and 50.13); "50.126%" alone is 0.50 under both.
C6_PercentPolicy ==
    /\ TokenizeReturned
          => LET lexed == RefTokens IN lexed.wf => tokens = lexed.toks
    /\ (pc = "done" /\ items = Text_50_126pct_times_100 /\ decimals = 2)
          => returned = IF rounding_strategy = "DivideBy100ThenRound"
                        THEN Ok(FromInt(50)) ELSE Ok(Rat(5013, 100))
    /\ (pc = "done" /\ items = <<N50_126Pct>> /\ decimals = 2)
          => returned = Ok(Rat(1, 2))

C6_Witness ==
    /\ pc = "done" /\ items = Text_50_126pct_times_100 /\ decimals = 2
    /\ rounding_strategy = "RoundThenDivideBy100"
    /\ tokens[1] = Number(Rat(5013, 10000))
    /\ returned = Ok(Rat(5013, 100))

\* C7: a '-' is unary iff no token has been produced yet or the last token is
\* + - * / or a left parenthesis; after a Number or a right parenthesis it is
\* the binary Subtract.  A unary '-' not directly followed by a digit makes
\* calculate fail with InvalidExpression.
C7_UnaryMinus ==
    [][ (pc = "tokenize" /\ chars # <<>> /\ Head(chars) = "-") =>
          LET unary == \/ Len(tokens) = 0
                       \/ tokens[Len(tokens)].type
                              \in {"Add", "Subtract", "Multiply", "Divide", "LeftParen"}
              digit_follows == Len(chars) >= 2 /\ chars[2] \in Digits
              fails == pc' = "done" /\ returned' = Err("InvalidExpression", "")
          IN  IF ~unary
              THEN pc' = "tokenize" /\ tokens' = Append(tokens, Op("Subtract"))
                   /\ chars' = Tail(chars)
              ELSE IF ~digit_follows THEN fails
              ELSE \/ fails
                   \/ /\ pc' = "tokenize" /\ Len(tokens') = Len(tokens) + 1
                      /\ tokens'[Len(tokens')].type = "Number"
                      /\ tokens'[Len(tokens')].value.num <= 0
      ]_vars

\* a unary '-' followed by a space has made calculate fail
C7_Witness ==
    /\ pc = "done" /\ returned = Err("InvalidExpression", "")
    /\ Len(chars) >= 2 /\ chars[1] = "-" /\ chars[2] = " "
    /\ tokens # <<>> /\ tokens[Len(tokens)].type = "Subtract"

\* C8: validate returns true iff calculate succeeds with a value actual such
\* that |actual - expected| < 1e-9; when calculate fails with any error,
\* validate returns false.
C8_Validate ==
    pc = "validated" =>
        /\ verdict \in BOOLEAN
        /\ verdict <=>
              /\ returned.state = "Ok"
              /\ LET diff == RSub(returned.value, expected)
                 IN  \/ diff.num = 0
                     \/ /\ diff.den \div 1000000000 >= Abs(diff.num)
                        /\ Abs(diff.num) * 1000000000 < diff.den

\* validate has accepted a value that differs from `expected` by 5e-10
C8_Witness ==
    /\ pc = "validated" /\ verdict
    /\ returned.state = "Ok" /\ returned.value = Zero
    /\ expected = Rat(1, 2000000000)

\* C9: a division fails with DivisionByZero exactly when its right-hand
\* operand v satisfies |v| < 1e-9, literal or sub-expression, over the
\* pre-rounded literals ("5 / 0.4" at 0 decimals); a division by any other
\* value does not raise it.
C9_DivisionByZero ==
    [][ LET dividing == /\ pc = "evaluate" /\ queue_in # <<>>
                        /\ Head(queue_in).type = "Divide"
                        /\ Len(operand_stack) >= 2
            v == operand_stack[Len(operand_stack)]
            tiny == RLtEps(RAbs(v), EPSILON)
        IN  /\ (dividing /\ tiny)
                  => pc' = "done" /\ returned' = Err("DivisionByZero", "")
            /\ (dividing /\ ~tiny)
                  => /\ pc' = "evaluate" /\ returned' = Pending
                     /\ operand_stack' =
                            Append(SubSeq(operand_stack, 1, Len(operand_stack) - 2),
                                   RDiv(operand_stack[Len(operand_stack) - 1], v))
            /\ (returned.err # "DivisionByZero" /\ returned'.err = "DivisionByZero")
                  => dividing /\ tiny
            /\ (pc' = "done" /\ items = Text_5_div_0_4 /\ decimals = 0)
                  => returned' = Err("DivisionByZero", "")
      ]_vars

\* a division by a divisor that is not zero but below 1e-9 has failed
C9_Witness ==
    /\ pc = "done" /\ returned = Err("DivisionByZero", "")
    /\ queue_in # <<>> /\ Head(queue_in).type = "Divide"
    /\ operand_stack # <<>> /\ operand_stack[Len(operand_stack)].num # 0

\* the parentheses of a token sequence are balanced
RefDepth(ts, k) ==
    Cardinality({i \in 1..k : ts[i].type = "LeftParen"})
        - Cardinality({i \in 1..k : ts[i].type = "RightParen"})
RefBalanced(ts) ==
    /\ \A k \in 1..Len(ts) : RefDepth(ts, k) >= 0
    /\ RefDepth(ts, Len(ts)) = 0

\* C10: when tokenization succeeds, calculate fails with MismatchedParens iff
\* the parentheses of the token sequence are unbalanced, in preference to any
\* InvalidExpression or DivisionByZero ("(1 +", "(1 / 0").
C10_MismatchedParens ==
    (pc = "done" /\ TokenizeOk) =>
        (returned = Err("MismatchedParens", "") <=> ~RefBalanced(tokens))

C10_Witness ==
    /\ pc = "done" /\ TokenizeOk /\ items = Text_1_div_0
    /\ returned = Err("MismatchedParens", "")

Text_plus_1_2 == <<Plus, Space, LParen, One, RParen, Space, LParen, Two, RParen>>
Text_1_2_plus == <<LParen, One, RParen, Space, LParen, Two, RParen, Space, Plus>>

\* C11: when tokenization and parenthesis matching succeed and no division
\* by zero is hit, a token sequence that is not a well-formed infix expression
\* (an operator without its left or right operand in infix position, two
\* adjacent operands, no operand at all) makes calculate fail with
\* InvalidExpression: no value is returned for it.
C11_MalformedIsInvalid ==
    (pc = "done" /\ TokenizeOk /\ RefBalanced(tokens)
        /\ returned # Err("DivisionByZero", ""))
        => LET v == RefParse(tokens)
           IN  ~v.wf => returned = Err("InvalidExpression", "")

Text_1_div_0_at == <<LParen, One, Space, Slash, Space, Zero_, Space, At>>

\* the characters the scan accepts where a token may start
RefScannable == Digits \cup {"+", "-", "*", "/", "(", ")", " ", "\t", "\n"}

\* C12: when the scan reaches a character that is not a digit, + - * / ( ),
\* space, tab or newline (separators and '%' taken with the literal before
\* them are not reached), calculate fails at once with InvalidCharacter
\* carrying that character, and InvalidCharacter arises in no other way; it is
\* reported before any later error of the text ("(1 / 0 @").
C12_InvalidCharacter ==
    [][ LET reached == pc = "tokenize" /\ chars # <<>>
            offending == reached /\ Head(chars) \notin RefScannable
        IN  /\ offending
                  => pc' = "done" /\ returned' = Err("InvalidCharacter", Head(chars))
            /\ (returned.err # "InvalidCharacter" /\ returned'.err = "InvalidCharacter")
                  => offending
            /\ (pc' = "done" /\ items = Text_1_div_0_at)
                  => returned' = Err("InvalidCharacter", "@")
      ]_vars

C12_Witness ==
    /\ pc = "done" /\ items = Text_1_div_0_at
    /\ returned = Err("InvalidCharacter", "@")
    /\ Len(tokens) = 4 /\ Head(chars) = "@"

Text_5_times == <<Five, Space, Times>>
Text_5_times_minus == <<Five, Space, Times, Space, Minus>>

\* the error kinds calculate produces
RefProducedErrors ==
    {"InvalidCharacter", "MismatchedParens", "InvalidExpression", "DivisionByZero"}

\* the steps a call of validate may still take: every step of the call
\* lowers it
RefStepsLeft ==
    CASE pc = "tokenize" -> Len(chars) + 2 * Len(expr) + 5
      [] pc = "shunt" -> Len(queue_in) + Len(expr) + 4
      [] pc = "evaluate" -> Len(queue_in) + 3
      [] pc = "round" -> 2
      [] pc = "done" -> 1
      [] OTHER -> 0

\* a step that belongs to the call under way (not the start of another call)
RefStepOfCall == pc' # "tokenize" \/ pc = "tokenize"

Text_1_tab_plus_tab_2 == <<One, Tab, Plus, Tab, Two>>
Text_1_nl_plus_nl_2 == <<One, Newline, Plus, Newline, Two>>

\* white space items, and the positions of an expression that hold one
RefWhitespace == {Space, Tab, Newline}
RefWhitespaceAt(its) == {i \in 1..Len(its) : its[i] \in RefWhitespace}

\* the expression with the white space at i replaced by another one, with one
\* more white space next to it, or without it when white space stays there
RefReplaced(its, i) == {[its EXCEPT ![i] = w] : w \in RefWhitespace}
RefWidened(its, i) ==
    {SubSeq(its, 1, i) \o <<w>> \o SubSeq(its, i + 1, Len(its)) : w \in RefWhitespace}
RefNarrowed(its, i) ==
    IF \/ (i > 1 /\ its[i - 1] \in RefWhitespace)
       \/ (i < Len(its) /\ its[i + 1] \in RefWhitespace)
    THEN {SubSeq(its, 1, i - 1) \o SubSeq(its, i + 1, Len(its))}
    ELSE {}
RefRespaced(its, i) ==
    RefReplaced(its, i) \cup RefWidened(its, i) \cup RefNarrowed(its, i)

\* the white space at i stands where a numeric literal may go on: the nearest
\* item before it ends with a digit or a separator, and the nearest item
\* after it starts with a digit, a separator or '%'
RefInLiteral(its, i) ==
    LET before == {j \in 1..(i - 1) : its[j] \notin RefWhitespace}
        after == {j \in (i + 1)..Len(its) : its[j] \notin RefWhitespace}
        p == CHOOSE j \in before : \A k \in before : k <= j
        n == CHOOSE j \in after : \A k \in after : j <= k
    IN  /\ before # {} /\ after # {}
        /\ its[p] # <<>> /\ Last(its[p]) \in Digits \cup {".", ",", "'"}
        /\ its[n] # <<>> /\ Head(its[n]) \in Digits \cup {".", ",", "'", "%"}

\* C16 as stated: space, tab and newline are interchangeable and their number
\* between two lexical items is irrelevant: replacing any white space of an
\* expression by another, or changing how many stand in a place, does not
\* change the outcome of calculate.
C16_WhitespaceAsStated ==
    pc = "done" =>
        \A i \in RefWhitespaceAt(items) : \A v \in RefRespaced(items, i) :
            calculate(Flatten(v), decimals, rounding_strategy) = returned

\* C16, amended: the same, for every white space that does not stand where a
\* numeric literal may go on (after a digit or separator and before a digit,
\* a separator or '%'): there a space is read as part of the literal, a tab
\* or a newline is not.  "1 + 2", "1<tab>+<tab>2" and "1<newline>+<newline>2"
\* all give 3.
C16_Whitespace ==
    /\ pc = "done" =>
          \A i \in RefWhitespaceAt(items) :
              ~RefInLiteral(items, i) =>
                  \A v \in RefRespaced(items, i) :
                      calculate(Flatten(v), decimals, rounding_strategy) = returned
    /\ (pc = "done" /\ items \in {Text_1_tab_plus_tab_2, Text_1_nl_plus_nl_2})
          => returned = Ok(FromInt(3))
    /\ (pc = "done" /\ TokenizeOk)
          => Len(tokens) <= Len(items) - Cardinality(RefWhitespaceAt(items))

C16_Witness ==
    /\ pc = "done" /\ items = Text_1_tab_plus_tab_2
    /\ returned = Ok(FromInt(3)) /\ Len(tokens) = 3

\* one literal: an optional leading '-', a digit followed by digits and the
\* separators . , space and apostrophe, an optional trailing '%'
RECURSIVE RefStripped(_)
RefStripped(s) ==
    IF s # <<>> /\ Head(s) = " " THEN RefStripped(Tail(s))
    ELSE IF s # <<>> /\ Last(s) = " " THEN RefStripped(Front(s))
    ELSE s
RefIsOneLiteral(text) ==
    LET t == RefStripped(text)
        unsigned == IF t # <<>> /\ Head(t) = "-" THEN Tail(t) ELSE t
        body == IF unsigned # <<>> /\ Last(unsigned) = "%" THEN Front(unsigned)
                ELSE unsigned
    IN  /\ body # <<>> /\ Head(body) \in Digits
        /\ \A i \in 1..Len(body) : body[i] \in Digits \cup {".", ",", " ", "'"}

\* C17: the expected field is read as one literal only and never evaluated
\* with the expression grammar: a text with operators or parentheses
\* ("50% + 1", "1+2") or with trailing non-numeric characters ("3abc") is
\* rejected as unparsable.
C17_ExpectedIsOneLiteral ==
    pc = "parsed" => (returned.state = "Ok" => RefIsOneLiteral(input))

\* the fields of a line as the line format `expression|expected[|label]`
\* counts them
RefBars(line) == {k \in 1..Len(line) : line[k] = "|"}
RefFieldCount(line) == Cardinality(RefBars(line)) + 1
RefMin(S) == CHOOSE k \in S : \A j \in S : k <= j
RefSecondField(line) ==
    LET first == RefMin(RefBars(line))
        later == {k \in RefBars(line) : k > first}
        stop == IF later = {} THEN Len(line) + 1 ELSE RefMin(later)
    IN  SubSeq(line, first + 1, stop - 1)
RefMalformed(line, token) ==
    \/ RefFieldCount(line) \notin {2, 3}
    \/ ~RefIsOneLiteral(RefSecondField(line))
    \/ token \notin {DIVIDE_BY_100_THEN_ROUND, ROUND_THEN_DIVIDE_BY_100}
\* an entry reports a pass when its text ends with the pass marker
RefEntryPassed(entry) ==
    /\ Len(entry) >= Len(PASS_MARKER)
    /\ SubSeq(entry, Len(entry) - Len(PASS_MARKER) + 1, Len(entry)) = PASS_MARKER
RefEntryIsOfLine(entry, k) ==
    /\ Len(entry) >= Len(line_prefix(k - 1))
    /\ SubSeq(entry, 1, Len(line_prefix(k - 1))) = line_prefix(k - 1)

\* C18: batch-validate never aborts: it produces exactly one result entry per
\* line, in input order, and always returns a report; a line with a field
\* count other than 2 or 3, an unparsable expected value or an unknown policy
\* token yields a failure entry, and the lines after it are still processed.
C18_BatchNeverAborts ==
    pc = "reported" =>
        /\ Len(results) = Len(expressions)
        /\ output # <<>>
        /\ \A k \in 1..Len(expressions) :
               /\ RefEntryIsOfLine(results[k], k)
               /\ RefMalformed(expressions[k], percent_rounding)
                      => ~RefEntryPassed(results[k])

\* the lines whose validation passed, and the summary that counts them
RefLinePasses(line, dec, token) ==
    LET parts == split(line, "|")
        strategy == parse_percent_rounding(token)
    IN  /\ Len(parts) >= 2
        /\ strategy.state = "Ok"
        /\ LET exp == parse_expected_value(trim(parts[2]), dec, strategy.strategy)
           IN  /\ exp.state = "Ok"
               /\ validate(trim(parts[1]), exp.value, dec, strategy.strategy)
RefPassedLines ==
    {k \in 1..Len(expressions) :
        RefLinePasses(expressions[k], decimals, percent_rounding)}
RefFirstLine(text) ==
    IF contains(text, "\n")
    THEN SubSeq(text, 1, RefMin({k \in 1..Len(text) : text[k] = "\n"}) - 1)
    ELSE text

\* C19: the aggregate is exact for every input: the summary says that all N
\* expressions passed iff every one of the N lines passed, and otherwise the
\* count it reports is the number of lines whose validation passed, whatever
\* text the expressions and labels contain.
C19_AggregateExact ==
    pc = "reported" =>
        LET n == Len(expressions)
            k == Cardinality(RefPassedLines)
        IN  RefFirstLine(output) = IF k = n THEN summary_all(n)
                                   ELSE summary_some(k, n)

RefParens == {"LeftParen", "RightParen"}

\* C20: whenever shunt_to_rpn succeeds, its operator stack is empty at the
\* end and the sequence it returns contains no LeftParen and no RightParen,
\* contains exactly the Number and operator tokens of its input (same
\* multiset) and keeps the Number tokens in their input order; at every step
\* the operator stack holds only operators and LeftParen; evaluate_rpn, run
\* on converter output, never reaches its unreachable!() branch.
C20_ShuntInvariants ==
    /\ pc \in {"shunt", "evaluate"} =>
          \A i \in 1..Len(operator_stack) :
              operator_stack[i].type \in Operators \cup {"LeftParen"}
    /\ ShuntReturned =>
          /\ operator_stack = <<>>
          /\ \A i \in 1..Len(output_queue) : output_queue[i].type \notin RefParens
          /\ \A i \in 1..Len(tokens) :
                 tokens[i].type \notin RefParens =>
                     RefOccurrences(output_queue, tokens[i])
                         = RefOccurrences(tokens, tokens[i])
          /\ \A i \in 1..Len(output_queue) :
                 RefOccurrences(tokens, output_queue[i]) > 0
          /\ NumbersOf(output_queue) = NumbersOf(tokens)
    /\ returned.err # "unreachable"

C20_Witness ==
    /\ ShuntReturned
    /\ \E i \in 1..Len(tokens) : tokens[i].type = "LeftParen"
    /\ Cardinality({i \in 1..Len(output_queue) :
                        output_queue[i].type \in Operators}) >= 2
    /\ Len(NumbersOf(tokens)) >= 3

Text_1_2 == <<One, Space, Two>>
Text_1_plus_2_3 == <<One, Space, Plus, Space, Two, Space, Three>>
Text_1_times_2 == <<One, Space, Times, Space, Two>>

\* the characters of a literal, and the longest run of them at the head of a
\* text
RefRunChars == Digits \cup {".", ",", " ", "'"}
RefRunLen(cs) ==
    CHOOSE n \in 0..Len(cs) :
        /\ \A i \in 1..n : cs[i] \in RefRunChars
        /\ n < Len(cs) => cs[n + 1] \notin RefRunChars
\* a text that reads as a number: digits with at most one '.'
RefReadsAsNumber(b) ==
    /\ \A i \in 1..Len(b) : b[i] \in Digits \cup {"."}
    /\ \E i \in 1..Len(b) : b[i] \in Digits
    /\ Cardinality({i \in 1..Len(b) : b[i] = "."}) <= 1
\* a '-' at this place is a sign
RefOperandExpected(toks) ==
    toks = <<>> \/ Last(toks).type \in Operators \cup {"LeftParen"}

\* C21: a numeric literal is the maximal run that starts at a digit and
\* continues over digits and the separators '.', ',', space and apostrophe;
\* it ends only at the first other character.  Digit groups separated only by
\* spaces form one Number token ("1 2" is 12, "1 + 2 3" is 1 + 23), trailing
\* separators before an operator belong to the run, and a normalized run that
\* does not read as a number makes calculate fail with InvalidExpression.
C21_MaximalRun ==
    [][ LET scanning == pc = "tokenize" /\ chars # <<>>
            signed == /\ scanning /\ Head(chars) = "-" /\ RefOperandExpected(tokens)
                      /\ Len(chars) >= 2 /\ chars[2] \in Digits
            start == IF signed THEN Tail(chars) ELSE chars
            at_literal == scanning /\ (Head(chars) \in Digits \/ signed)
            n == RefRunLen(start)
            text == normalize_number(SubSeq(start, 1, n))
            after == SubSeq(start, n + 1, Len(start))
            percent == after # <<>> /\ Head(after) = "%"
            magnitude == RefDecimal(text)
            x == IF signed THEN RNeg(magnitude) ELSE magnitude
            value == IF ~percent THEN RefRound(x, decimals)
                     ELSE IF rounding_strategy = "DivideBy100ThenRound"
                     THEN RefRound(RDiv(x, FromInt(100)), decimals)
                     ELSE RDiv(RefRound(x, decimals), FromInt(100))
        IN  /\ at_literal =>
                  IF RefReadsAsNumber(text)
                  THEN /\ pc' = "tokenize"
                       /\ tokens' = Append(tokens, Number(value))
                       /\ chars' = IF percent THEN Tail(after) ELSE after
                  ELSE pc' = "done" /\ returned' = Err("InvalidExpression", "")
            /\ (pc' = "done" /\ items = Text_1_2) => returned' = Ok(FromInt(12))
            /\ (pc' = "done" /\ items = Text_1_plus_2_3) => returned' = Ok(FromInt(24))
            /\ (pc' = "done" /\ items = Text_1_times_2) => returned' = Ok(FromInt(2))
      ]_vars

C21_Witness ==
    /\ pc = "done" /\ items = Text_1_plus_2_3
    /\ Len(tokens) = 3 /\ tokens[3] = Number(FromInt(23))
    /\ returned = Ok(FromInt(24))

====
